---- MODULE Spec2Model ----
(***************************************************************************)
(* A model of auto_macchanger.py: the MAC generator, the per-SSID vendor   *)
(* store, the believability scorer, and the rotation driver with its       *)
(* SIGINT/SIGTERM handler.                                                 *)
(*                                                                         *)
(* Python strings that the code takes apart (a MAC, an OUI, a custom       *)
(* prefix) are sequences of one-character strings.  Names that are only    *)
(* compared or used as dictionary keys (vendors, SSIDs, host names) are    *)
(* TLA+ strings.  Python's None is NoneVal.                                *)
(***************************************************************************)
EXTENDS Integers, Sequences, FiniteSets, TLC

NoneVal == "None"

\* Python truthiness of a str-or-None value held as a TLA+ string.
Truthy(v) == v # NoneVal /\ v # ""

(***************************************************************************)
(* Characters and the string operations the code uses.                     *)
(***************************************************************************)
HexDigits == <<"0","1","2","3","4","5","6","7","8","9","a","b","c","d","e","f">>

\* f"{b:02x}"
Hex2(b) == <<HexDigits[(b \div 16) + 1], HexDigits[(b % 16) + 1]>>

\* str.lower() on one character of the alphabet used here
LowerChar(c) ==
    CASE c = "A" -> "a" [] c = "B" -> "b" [] c = "C" -> "c"
      [] c = "D" -> "d" [] c = "E" -> "e" [] c = "F" -> "f"
      [] OTHER -> c

Lower(s) == [k \in 1..Len(s) |-> LowerChar(s[k])]

\* value of one hex digit as int(.., 16) reads it, -1 when it is no hex digit
DigitVal(c) ==
    LET lc == LowerChar(c)
        hits == {k \in 1..16 : HexDigits[k] = lc}
    IN IF hits = {} THEN -1 ELSE (CHOOSE k \in hits : TRUE) - 1

RECURSIVE HexValue(_)
HexValue(g) ==
    IF Len(g) = 0 THEN 0
    ELSE 16 * HexValue(SubSeq(g, 1, Len(g) - 1)) + DigitVal(g[Len(g)])

\* int(g, 16): the value, or -1 for ValueError
ParseHex(g) ==
    IF Len(g) = 0 \/ \E k \in 1..Len(g) : DigitVal(g[k]) = -1
    THEN -1
    ELSE HexValue(g)

\* s.split(":")
RECURSIVE Split(_)
Split(s) ==
    LET cut == {k \in 1..Len(s) : s[k] = ":"}
    IN IF cut = {} THEN <<s>>
       ELSE LET k == CHOOSE x \in cut : \A y \in cut : x <= y
            IN <<SubSeq(s, 1, k - 1)>> \o Split(SubSeq(s, k + 1, Len(s)))

\* ":".join(groups)
RECURSIVE Join(_)
Join(gs) ==
    IF Len(gs) = 0 THEN <<>>
    ELSE IF Len(gs) = 1 THEN gs[1]
    ELSE gs[1] \o <<":">> \o Join(Tail(gs))

\* s[:n]
Take(s, n) == SubSeq(s, 1, IF Len(s) < n THEN Len(s) ELSE n)

\* s.startswith(p)
StartsWith(s, p) == Len(p) <= Len(s) /\ SubSeq(s, 1, Len(p)) = p

Oui(a, b, c, d, e, f) == <<a, b, ":", c, d, ":", e, f>>

\* x & 1, x & 2 and (x & 0b11111100) | 0b00000010 on a byte
Bit0(x) == x % 2
Bit1(x) == (x \div 2) % 2
LocalAdmin(x) == (x \div 4) * 4 + 2

(***************************************************************************)
(* The vendor catalog.                                                     *)
(***************************************************************************)
VendorNames == <<"apple", "intel", "samsung", "realtek", "raspberrypi",
                 "vmware", "virtualbox">>

KnownVendors == {VendorNames[k] : k \in 1..Len(VendorNames)}

VENDOR_OUIS(v) ==
    CASE v = "apple" -> <<Oui("f","0","1","8","9","8"), Oui("3","c","1","5","c","2"),
                          Oui("a","4","5","e","6","0")>>
      [] v = "intel" -> <<Oui("3","c","f","d","f","e"), Oui("9","8","4","f","e","e")>>
      [] v = "samsung" -> <<Oui("b","c","1","4","e","f"), Oui("d","8","5","5","a","3")>>
      [] v = "realtek" -> <<Oui("0","0","e","0","4","c"), Oui("5","2","5","4","0","0")>>
      [] v = "raspberrypi" -> <<Oui("b","8","2","7","e","b"), Oui("d","c","a","6","3","2")>>
      [] v = "vmware" -> <<Oui("0","0","5","0","5","6")>>
      [] v = "virtualbox" -> <<Oui("0","8","0","0","2","7")>>
      [] OTHER -> <<>>

\* INTERFACE_VENDOR_MAP.get(t, [])
INTERFACE_VENDOR_MAP(t) ==
    CASE t = "wlan" -> <<"apple", "samsung", "realtek", "raspberrypi">>
      [] t = "eth" -> <<"intel", "realtek">>
      [] t = "vm" -> <<"vmware", "virtualbox">>
      [] OTHER -> <<>>

\* HOSTNAME_PROFILES.get(v, [])
HOSTNAME_PROFILES(v) ==
    CASE v = "apple" -> <<"MacBook-Pro", "MacBook-Air">>
      [] v = "intel" -> <<"ThinkPad", "Dell-Laptop">>
      [] v = "samsung" -> <<"Galaxy-S21">>
      [] v = "raspberrypi" -> <<"raspberrypi">>
      [] v = "vmware" -> <<"vmware-host">>
      [] v = "virtualbox" -> <<"vbox">>
      [] OTHER -> <<>>

\* TTL_PROFILES.get(v, 64)
TTL_PROFILES(v) == IF v \in {"vmware", "virtualbox"} THEN 128 ELSE 64

Range(s) == {s[k] : k \in 1..Len(s)}

Str2(a, b) == <<a, b>>
Str3(a, b, c) == <<a, b, c>>

\* Interface names the operator may type at the prompt.
Wlan0 == <<"w","l","a","n","0">>
Enp3s0 == <<"e","n","p","3","s","0">>
Vmnet1 == <<"v","m","n","e","t","1">>
Tun0 == <<"t","u","n","0">>

iface_type(iface) ==
    IF StartsWith(iface, Str2("w","l")) THEN "wlan"
    ELSE IF StartsWith(iface, Str3("e","t","h")) \/ StartsWith(iface, Str2("e","n")) THEN "eth"
    ELSE IF StartsWith(iface, Str2("v","m")) THEN "vm"
    ELSE "unknown"

(***************************************************************************)
(* random_mac.  rnd is the sequence of values random.randint(0,255) hands  *)
(* out, in call order; pick is the index random.choice selects.  The       *)
(* result is a record: ok with the MAC, or the exception raised.           *)
(***************************************************************************)
Raised(e) == [ok |-> FALSE, err |-> e, mac |-> <<>>]
Returned(m) == [ok |-> TRUE, err |-> NoneVal, mac |-> m]

\* while len(base) < 3: base.append(f"{random.randint(0,255):02x}")
RECURSIVE PadBase(_, _)
PadBase(base, rnd) ==
    IF Len(base) < 3
    THEN PadBase(Append(base, Hex2(Head(rnd))), Tail(rnd))
    ELSE [base |-> base, rnd |-> rnd]

\* the body of random_mac once the prefix is decided
MacFromPrefix(prefix, rnd) ==
    IF prefix # <<>>
    THEN LET p == PadBase(Split(prefix), rnd)
             first == SubSeq(p.base, 1, 3)
             last == [k \in 1..3 |-> Hex2(p.rnd[k])]
         IN Join(first \o last)
    ELSE LET b == LocalAdmin(rnd[1])
             first == <<Hex2(b), Hex2(rnd[2]), Hex2(rnd[3])>>
             last == [k \in 1..3 |-> Hex2(rnd[3 + k])]
         IN Join(first \o last)

\* prefix <<>> stands for both None and "": the code only tests `if prefix`
random_mac(vendor, prefix, pick, rnd) ==
    IF Truthy(vendor)
    THEN IF vendor \notin KnownVendors
         THEN Raised("KeyError")
         ELSE LET ouis == VENDOR_OUIS(vendor)
              IN Returned(MacFromPrefix(ouis[((pick - 1) % Len(ouis)) + 1], rnd))
    ELSE Returned(MacFromPrefix(prefix, rnd))

\* Outcomes of six random.randint(0,255) calls explored by the model.
RandSeqs ==
    { <<0, 0, 0, 0, 0, 0>>,
      <<255, 255, 255, 255, 255, 255>>,
      <<1, 2, 3, 4, 5, 6>>,
      <<171, 18, 52, 86, 120, 154>> }

\* A custom prefix parses into 1 to 3 two-digit hex octets.
ValidPrefix(p) ==
    LET gs == Split(p)
    IN /\ Len(gs) \in 1..3
       /\ \A k \in 1..Len(gs) : Len(gs[k]) = 2 /\ ParseHex(gs[k]) # -1

\* Custom prefixes typed at the "Enter OUI" prompt in the model.
Prefixes ==
    { <<>>,
      Oui("0","0","1","1","2","2"),
      <<"a","a">>,
      <<"a","a",":","b","b">>,
      <<"z","z",":","1","1">>,
      <<"1",":","2","2","2">>,
      <<"0","0",":","1","1",":","2","2",":","3","3">>,
      <<"A","B",":","c","d",":","e","f">> }

(***************************************************************************)
(* The profile store: the JSON file at PROFILE_FILE.  The file is missing, *)
(* unparseable, or holds an object; map gives each SSID its stored vendor  *)
(* or Absent.                                                              *)
(***************************************************************************)
Absent == "<absent>"
SSIDs == {"HomeNet", "Cafe"}
StoredVendors == {"apple", "intel", "cisco"}

EmptyMap == [s \in SSIDs |-> Absent]
MissingFile == [state |-> "missing", map |-> EmptyMap]
MalformedFile == [state |-> "malformed", map |-> EmptyMap]
FileWith(m) == [state |-> "ok", map |-> m]

\* Contents of the file when the program starts.
Stores ==
    {MissingFile, MalformedFile}
      \cup {FileWith(m) : m \in [SSIDs -> {Absent} \cup StoredVendors]}

\* load_profiles(): the mapping, or the exception json.load raises
load_profiles(st) ==
    IF st.state = "missing" THEN [ok |-> TRUE, err |-> NoneVal, map |-> EmptyMap]
    ELSE IF st.state = "malformed"
         THEN [ok |-> FALSE, err |-> "JSONDecodeError", map |-> EmptyMap]
         ELSE [ok |-> TRUE, err |-> NoneVal, map |-> st.map]

\* save_profiles(p)
save_profiles(m) == FileWith(m)

\* `ssid and ssid in profiles`
InProfiles(ssid, m) == Truthy(ssid) /\ ssid \in SSIDs /\ m[ssid] # Absent

\* A persistent_vendor result: what it returned or raised, the file it left,
\* whether random.choice was called and whether save_profiles was called.
PvResult(ok, err, vendor, st, chose, wrote) ==
    [ok |-> ok, err |-> err, vendor |-> vendor, store |-> st,
     chose |-> chose, wrote |-> wrote]

\* auto_vendor(iface): the candidates random.choice draws from
auto_vendor(iface) == INTERFACE_VENDOR_MAP(iface_type(iface))

\* persistent_vendor without its save_profiles call
persistent_vendor_unsaved(iface, ssid, st, pick) ==
    LET profiles == load_profiles(st)
        cands == auto_vendor(iface)
    IN IF ~profiles.ok
       THEN PvResult(FALSE, profiles.err, NoneVal, st, FALSE, FALSE)
       ELSE IF InProfiles(ssid, profiles.map)
       THEN PvResult(TRUE, NoneVal, profiles.map[ssid], st, FALSE, FALSE)
       ELSE IF Len(cands) = 0
       THEN PvResult(FALSE, "IndexError", NoneVal, st, TRUE, FALSE)
       ELSE PvResult(TRUE, NoneVal, cands[((pick - 1) % Len(cands)) + 1], st, TRUE, FALSE)

\* persistent_vendor(iface) with current_ssid() = ssid, the file st, and pick the
\* index random.choice selects
persistent_vendor(iface, ssid, st, pick) ==
    LET profiles == load_profiles(st)
        cands == auto_vendor(iface)
    IN IF ~profiles.ok
       THEN PvResult(FALSE, profiles.err, NoneVal, st, FALSE, FALSE)
       ELSE IF InProfiles(ssid, profiles.map)
       THEN PvResult(TRUE, NoneVal, profiles.map[ssid], st, FALSE, FALSE)
       ELSE IF Len(cands) = 0
       THEN PvResult(FALSE, "IndexError", NoneVal, st, TRUE, FALSE)
       ELSE LET vendor == cands[((pick - 1) % Len(cands)) + 1]
            IN IF Truthy(ssid) /\ Truthy(vendor)
               THEN PvResult(TRUE, NoneVal, vendor,
                             save_profiles([profiles.map EXCEPT ![ssid] = vendor]),
                             TRUE, TRUE)
               ELSE PvResult(TRUE, NoneVal, vendor, st, TRUE, FALSE)

(***************************************************************************)
(* believability_score.  Host names are atomic here; str.lower() and the   *)
(* substring test `a in b` on them are the tables LowerName and Contains.  *)
(***************************************************************************)
LowerName(n) ==
    CASE n = "MacBook-Pro" -> "macbook-pro"
      [] n = "MacBook-Air" -> "macbook-air"
      [] n = "ThinkPad" -> "thinkpad"
      [] n = "Dell-Laptop" -> "dell-laptop"
      [] n = "Galaxy-S21" -> "galaxy-s21"
      [] n = "Ubuntu-PC" -> "ubuntu-pc"
      [] OTHER -> n

\* <<h, n>>: lower-case host name h has n as a substring
Contains ==
    { <<"macbook-pro", "macbook-pro">>,
      <<"macbook-air", "macbook-air">>,
      <<"thinkpad", "thinkpad">>,
      <<"dell-laptop", "dell-laptop">>,
      <<"dell-laptop", "laptop">>,
      <<"galaxy-s21", "galaxy-s21">>,
      <<"raspberrypi", "raspberrypi">>,
      <<"vmware-host", "host">>,
      <<"vmware-host", "vmware">>,
      <<"vmware-host", "vmware-host">>,
      <<"vbox", "vbox">>,
      <<"linux-host", "host">>,
      <<"linux-host", "linux">>,
      <<"apple-tv", "apple">>,
      <<"ubuntu-pc", "pc">>,
      <<"ubuntu-pc", "ubuntu">> }

GenericPatterns == {"linux", "ubuntu", "debian", "user", "host", "pc", "laptop", "desktop"}

\* A lookup that failed: sysctl or hostname gave nothing usable.
TtlUnreadable == -1
HostUnreadable == NoneVal

\* int(mac.split(':')[0], 16), -1 for ValueError
FirstByte(mac) == ParseHex(Split(mac)[1])

\* Check 1: vendor matches interface type
ScoreIface(iface, vendor, mac) ==
    LET t == iface_type(iface)
    IN IF Truthy(vendor) /\ vendor \in Range(INTERFACE_VENDOR_MAP(t)) THEN 20
       ELSE IF Truthy(vendor) /\ t = "unknown" THEN 8
       ELSE IF ~Truthy(vendor)
            THEN IF FirstByte(mac) # -1 /\ Bit0(FirstByte(mac)) = 0 THEN 10 ELSE 0
            ELSE 0

\* Check 2: valid vendor OUI prefix
ScoreOui(vendor, mac) ==
    IF Truthy(vendor)
    THEN LET mac_prefix == Lower(Take(mac, 8))
             vendor_prefixes == {Lower(p) : p \in Range(VENDOR_OUIS(vendor))}
         IN IF mac_prefix \in vendor_prefixes THEN 20
            ELSE IF \E p \in vendor_prefixes : StartsWith(mac_prefix, Take(p, 5)) THEN 8
            ELSE 0
    ELSE IF FirstByte(mac) = -1 THEN 0
         ELSE IF Bit1(FirstByte(mac)) # 0 THEN 15 ELSE 8

Abs(x) == IF x < 0 THEN -x ELSE x

\* Check 3: TTL matches vendor profile
ScoreTtl(vendor, ttl) ==
    IF ttl = TtlUnreadable THEN 0
    ELSE IF Truthy(vendor)
         THEN IF ttl = TTL_PROFILES(vendor) THEN 15
              ELSE IF Abs(ttl - TTL_PROFILES(vendor)) <= 1 THEN 7 ELSE 0
         ELSE IF ttl \in {64, 128, 255} THEN 12
              ELSE IF ttl \in {32, 60, 63, 65} THEN 6 ELSE 0

\* Check 4: hostname matches vendor style
ScoreHost(vendor, host) ==
    IF host = HostUnreadable THEN 0
    ELSE LET hn == LowerName(host)
         IN IF Truthy(vendor)
            THEN IF \E h \in Range(HOSTNAME_PROFILES(vendor)) : <<hn, LowerName(h)>> \in Contains
                 THEN 15
                 ELSE IF <<hn, LowerName(vendor)>> \in Contains THEN 7 ELSE 0
            ELSE IF \E g \in GenericPatterns : <<hn, g>> \in Contains THEN 10 ELSE 0

\* Check 5: persistent network identity, given the loaded mapping
ScoreProfile(vendor, ssid, m) ==
    IF InProfiles(ssid, m)
    THEN IF m[ssid] = vendor THEN 10
         ELSE IF Truthy(vendor) THEN 4 ELSE 0
    ELSE IF ~Truthy(vendor) THEN 8 ELSE 0

\* all(int(parts[i],16) == int(parts[i-1],16) + 1 for i in range(1, len(parts))):
\* "T", "F", or "raise" when an int() that is reached fails
RECURSIVE IsSequential(_, _)
IsSequential(parts, k) ==
    IF k > Len(parts) THEN "T"
    ELSE IF ParseHex(parts[k]) = -1 \/ ParseHex(parts[k - 1]) = -1 THEN "raise"
    ELSE IF ParseHex(parts[k]) = ParseHex(parts[k - 1]) + 1 THEN IsSequential(parts, k + 1)
    ELSE "F"

BroadcastMac == Join([k \in 1..6 |-> Str2("f", "f")])
NullMac == Join([k \in 1..6 |-> Str2("0", "0")])

\* Check 6: MAC address quality
ScoreQuality(mac) ==
    IF mac = <<>> THEN 0
    ELSE LET parts == Split(mac)
             is_sequential == IsSequential(parts, 2)
             is_same == Cardinality(Range(parts)) = 1
             is_broadcast == Lower(mac) = BroadcastMac
             is_null == Lower(mac) = NullMac
         IN IF is_sequential = "raise" THEN 0
            ELSE IF ~(is_sequential = "T" \/ is_same \/ is_broadcast \/ is_null) THEN 10
            ELSE IF ~(is_broadcast \/ is_null) THEN 4
            ELSE 0

Min(a, b) == IF a < b THEN a ELSE b

\* The result of believability_score: the value returned, or the exception raised.
ScoreRaised(e) == [ok |-> FALSE, err |-> e, value |-> 0]
ScoreReturned(v) == [ok |-> TRUE, err |-> NoneVal, value |-> v]

\* believability_score(iface, vendor, mac) with the live lookups' outcomes:
\* ttl (or TtlUnreadable), host (or HostUnreadable), ssid (or NoneVal), the file st
believability_score(iface, vendor, mac, ttl, host, ssid, st) ==
    LET profiles == load_profiles(st)
    IN IF ~profiles.ok THEN ScoreRaised(profiles.err)
       ELSE ScoreReturned(Min(ScoreIface(iface, vendor, mac) + ScoreOui(vendor, mac)
                                + ScoreTtl(vendor, ttl) + ScoreHost(vendor, host)
                                + ScoreProfile(vendor, ssid, profiles.map)
                                + ScoreQuality(mac) + 10,
                              100))

(***************************************************************************)
(* The process.  stack holds the position of main() (stack[1]) and, above  *)
(* it, of every safe_exit call a signal has started and that has not       *)
(* finished: the frame on top is the one that runs.  A position names the  *)
(* call the frame is blocked in or about to make.                          *)
(***************************************************************************)
VARIABLES
    stack,            \* positions of main and of the running signal handlers
    cfg,              \* the answers to the prompts: iface, count, dry
    vendor,           \* main's vendor
    custom_prefix,    \* main's custom_prefix (<<>> for None and "")
    tool,             \* what detect_tool returned
    changer,          \* the global changer: set, original, restored
    restore_on_exit,  \* the global restore_on_exit
    i,                \* main's loop counter
    mac,              \* main's mac
    look,             \* outcomes of the lookups made so far by the running call
    score,            \* the last believability score logged
    sys,              \* the host: interface address and link state, hostname, TTL
    store,            \* the profile file
    ssidNow,          \* the SSID iwgetid reports (NoneVal when not associated)
    exitStatus,       \* <<>> while running, <<code>> once the process has exited
    obs,              \* history: what has been issued and observed so far
    fin,              \* argument of the function under study
    fout,             \* <<result>> once the function under study has been applied
    calls             \* the persistent_vendor calls made so far, in order

vars == <<stack, cfg, vendor, custom_prefix, tool, changer, restore_on_exit, i, mac,
          look, score, sys, store, ssidNow, exitStatus, obs, fin, fout, calls>>

sessionVars == <<stack, cfg, vendor, custom_prefix, tool, changer, restore_on_exit, i,
                 mac, look, score, sys, ssidNow, exitStatus, obs>>

\* Bounds of the model.
MaxCount == 2
MaxRot == 2
MaxSignals == 2
MaxCalls == 3

NoMac == <<>>
FactoryMac == Join(<<Str2("7","c"), Str2("1","0"), Str2("c","9"),
                     Str2("4","2"), Str2("a","b"), Str2("0","1")>>)

NoLook == [ttl |-> TtlUnreadable, host |-> HostUnreadable, ssid |-> NoneVal]

Obs0(s) ==
    [sys0 |-> s,              \* the host as the process found it
     generated |-> 0,         \* random_mac calls that returned a MAC
     applied |-> 0,           \* address commands set_mac ran for a generated MAC
     writeBacks |-> 0,        \* address commands set_mac ran for restore
     slept |-> 0,             \* interval waits begun
     sleptAfter |-> 0,        \* the rotation after which the last wait began
     sigs |-> 0,              \* signals delivered
     sigDone |-> FALSE,       \* a handler that interrupted the loop's try has run
                              \* to its sys.exit(0)
     genAfterSig |-> FALSE,   \* random_mac or set_mac(mac) ran after that
     cmds |-> 0,              \* link commands that reached the interface
     lastWritten |-> NoMac,   \* the address of the last such address command
     fatal |-> NoneVal,       \* the fatal condition met, if any
     crash |-> NoneVal,       \* the exception that left main's code, if any
     restoreCalled |-> FALSE, \* restore() has been called
     restoreReturned |-> FALSE, \* a restore() call has returned
     viaBreak |-> FALSE]      \* the loop ended at its break

Sys0 == {[ifMac |-> m, ifUp |-> TRUE, host |-> "kali", ttl |-> 64] : m \in {FactoryMac, NoMac}}

\* The network and profile file a session may start with.
SessionEnvs ==
    { <<NoneVal, MissingFile>>,
      <<"HomeNet", MissingFile>>,
      <<"HomeNet", MalformedFile>>,
      <<"HomeNet", FileWith([EmptyMap EXCEPT !["HomeNet"] = "cisco"])>>,
      <<"HomeNet", FileWith([EmptyMap EXCEPT !["HomeNet"] = "apple"])>> }

PureIdle == fin = <<>> /\ fout = <<>> /\ calls = <<>>

SessionStart ==
    /\ stack = <<"require_root">>
    /\ cfg = [iface |-> <<>>, count |-> 0, dry |-> FALSE]
    /\ vendor = NoneVal
    /\ custom_prefix = <<>>
    /\ tool = NoneVal
    /\ changer = [set |-> FALSE, original |-> NoMac, restored |-> FALSE]
    /\ restore_on_exit = TRUE
    /\ i = 0
    /\ mac = NoMac
    /\ look = NoLook
    /\ score = 0
    /\ exitStatus = <<>>
    /\ obs = Obs0(sys)

Init ==
    /\ sys \in Sys0
    /\ SessionStart
    /\ \E e \in SessionEnvs : ssidNow = e[1] /\ store = e[2]
    /\ PureIdle

Running == exitStatus = <<>>
Exited == exitStatus # <<>>
Main(pc) == Running /\ Len(stack) = 1 /\ stack[1] = pc
Handler(pc) == Running /\ Len(stack) > 1 /\ stack[Len(stack)] = pc

(***************************************************************************)
(* Startup: main() up to the loop.                                         *)
(***************************************************************************)
Ifaces == {Wlan0, Tun0}
SessionPrefixes ==
    { Oui("0","0","1","1","2","2"),
      <<"z","z",":","1","1">>,
      <<"0","0",":","1","1",":","2","2",":","3","3">> }
SessionRands == { <<1, 2, 3, 4, 5, 6>>, <<171, 18, 52, 86, 120, 154>> }
\* Answers to "Choose vendor number:"; 8 is out of range, 0 indexes from the end.
ManualAnswers == {0, 1, 8}

Picks(seq) == IF Len(seq) = 0 THEN {1} ELSE 1..Len(seq)

\* sys.exit(code), or an exception leaving main() outside the try
Exit(code) == stack' = <<"exited">> /\ exitStatus' = <<code>>
Goto(pc) == stack' = <<pc>> /\ UNCHANGED exitStatus

\* require_root()
RequireRoot ==
    /\ Main("require_root")
    /\ \E root \in BOOLEAN :
         IF root
         THEN Goto("iface") /\ UNCHANGED obs
         ELSE Exit(1) /\ obs' = [obs EXCEPT !.fatal = "not root"]
    /\ UNCHANGED <<cfg, vendor, custom_prefix, tool, changer, restore_on_exit, i, mac,
                   look, score, sys, store, ssidNow, fin, fout, calls>>

\* iface = prompt(...); if not iface_exists(iface): sys.exit(...)
PromptIface ==
    /\ Main("iface")
    /\ \E name \in Ifaces, exists \in BOOLEAN :
         /\ cfg' = [cfg EXCEPT !.iface = name]
         /\ IF exists
            THEN Goto("prompts") /\ UNCHANGED obs
            ELSE Exit(1) /\ obs' = [obs EXCEPT !.fatal = "interface not found"]
    /\ UNCHANGED <<vendor, custom_prefix, tool, changer, restore_on_exit, i, mac,
                   look, score, sys, store, ssidNow, fin, fout, calls>>

\* the count, dry-run and restore prompts, the dry-run answer among dryAnswers
PromptConfigFrom(dryAnswers) ==
    /\ Main("prompts")
    /\ \E count \in 0..MaxCount, dry \in dryAnswers, restore \in BOOLEAN :
         /\ cfg' = [cfg EXCEPT !.count = count, !.dry = dry]
         /\ restore_on_exit' = restore
    /\ Goto("vendor_menu")
    /\ UNCHANGED <<vendor, custom_prefix, tool, changer, i, mac,
                   look, score, sys, store, ssidNow, obs, fin, fout, calls>>

PromptConfig == PromptConfigFrom(BOOLEAN)

\* the same prompts answered "y" to "Dry-run mode?"
PromptDryRun == PromptConfigFrom({TRUE})

\* vendors[int(answer) - 1], NoneVal when that raises IndexError
ManualVendor(n) ==
    IF n - 1 \in 0..(Len(VendorNames) - 1) THEN VendorNames[n]
    ELSE IF n - 1 \in (0 - Len(VendorNames))..(0 - 1) THEN VendorNames[Len(VendorNames) + n]
    ELSE NoneVal

\* vendor_menu(iface) up to its call of persistent_vendor
VendorMenu ==
    /\ Main("vendor_menu")
    /\ \E choice \in {"1", "2", "3", "4"}, n \in ManualAnswers, p \in SessionPrefixes :
         /\ vendor' = IF choice = "2" /\ ManualVendor(n) # NoneVal
                      THEN ManualVendor(n) ELSE NoneVal
         /\ custom_prefix' = IF choice = "3" THEN p ELSE <<>>
         /\ IF choice = "1" \/ (choice = "2" /\ ManualVendor(n) = NoneVal)
            THEN Goto("pv_ssid")
            ELSE Goto("detect_tool")
    /\ UNCHANGED <<cfg, tool, changer, restore_on_exit, i, mac,
                   look, score, sys, store, ssidNow, obs, fin, fout, calls>>

\* persistent_vendor: ssid = current_ssid()
PvSsid ==
    /\ Main("pv_ssid")
    /\ look' = [look EXCEPT !.ssid = ssidNow]
    /\ Goto("pv_rest")
    /\ UNCHANGED <<cfg, vendor, custom_prefix, tool, changer, restore_on_exit, i, mac,
                   score, sys, store, ssidNow, obs, fin, fout, calls>>

\* persistent_vendor from load_profiles() on; an exception ends the process
PvRest ==
    /\ Main("pv_rest")
    /\ \E pick \in Picks(auto_vendor(cfg.iface)) :
         LET r == persistent_vendor(cfg.iface, look.ssid, store, pick)
         IN /\ vendor' = r.vendor
            /\ store' = r.store
            /\ IF r.ok
               THEN Goto("detect_tool") /\ UNCHANGED obs
               ELSE /\ Exit(1)
                    /\ obs' = [obs EXCEPT
                                 !.crash = r.err,
                                 !.fatal = IF r.err = "JSONDecodeError"
                                           THEN "malformed profile file" ELSE @]
    /\ look' = NoLook
    /\ UNCHANGED <<cfg, custom_prefix, tool, changer, restore_on_exit, i, mac,
                   score, sys, ssidNow, fin, fout, calls>>

\* tool = detect_tool()
DetectTool ==
    /\ Main("detect_tool")
    /\ \E t \in {"ip", "ifconfig", NoneVal} :
         /\ tool' = t
         /\ IF t # NoneVal
            THEN Goto("construct") /\ UNCHANGED obs
            ELSE Exit(1) /\ obs' = [obs EXCEPT !.fatal = "no tool"]
    /\ UNCHANGED <<cfg, vendor, custom_prefix, changer, restore_on_exit, i, mac,
                   look, score, sys, store, ssidNow, fin, fout, calls>>

\* current_mac(): it always runs `ip`; detect_tool returns "ifconfig" only when
\* there is no `ip` to run
current_mac(t, s) ==
    IF t = "ifconfig" THEN Raised("FileNotFoundError") ELSE Returned(s.ifMac)

\* changer = MACIdentityChanger(iface, tool, dry, logf); changer.log(...); i = 0
Construct ==
    /\ Main("construct")
    /\ LET r == current_mac(tool, sys)
       IN IF r.ok
          THEN /\ changer' = [set |-> TRUE, original |-> r.mac, restored |-> FALSE]
               /\ Goto("loop_top")
               /\ UNCHANGED obs
          ELSE /\ Exit(1)
               /\ obs' = [obs EXCEPT !.crash = r.err]
               /\ UNCHANGED changer
    /\ i' = 0
    /\ UNCHANGED <<cfg, vendor, custom_prefix, tool, restore_on_exit, mac,
                   look, score, sys, store, ssidNow, fin, fout, calls>>

(***************************************************************************)
(* The rotation loop, set_mac, restore and safe_exit.                      *)
(***************************************************************************)
\* run without its `if dry` branch
run_always(op, m, dry, s) ==
    CASE op = "down" -> [s EXCEPT !.ifUp = FALSE]
      [] op = "addr" -> [s EXCEPT !.ifMac = m]
      [] op = "up" -> [s EXCEPT !.ifUp = TRUE]

\* run(c, dry) for one command of set_mac; the return code is ignored
run(op, m, dry, s) ==
    IF dry THEN s
    ELSE CASE op = "down" -> [s EXCEPT !.ifUp = FALSE]
           [] op = "addr" -> [s EXCEPT !.ifMac = m]
           [] op = "up" -> [s EXCEPT !.ifUp = TRUE]

\* One command of set_mac(m), run by the frame on top of the stack, which then
\* stands at next.  forRestore: the call is restore's set_mac(self.original).
SetMacStep(next, op, m, forRestore) ==
    /\ sys' = run(op, m, cfg.dry, sys)
    /\ stack' = [stack EXCEPT ![Len(stack)] = next]
    /\ obs' = [obs EXCEPT
                 !.cmds = IF cfg.dry THEN @ ELSE @ + 1,
                 !.lastWritten = IF op = "addr" /\ ~cfg.dry THEN m ELSE @,
                 !.applied = IF op = "addr" /\ ~forRestore THEN @ + 1 ELSE @,
                 !.writeBacks = IF op = "addr" /\ forRestore THEN @ + 1 ELSE @,
                 !.genAfterSig = @ \/ (op = "addr" /\ ~forRestore /\ obs.sigDone)]
    /\ UNCHANGED <<cfg, vendor, custom_prefix, tool, changer, restore_on_exit, i, mac,
                   look, score, store, ssidNow, exitStatus, fin, fout, calls>>

\* i += 1; if count and i > count: break; mac = random_mac(vendor, custom_prefix)
LoopTop ==
    /\ Main("loop_top")
    /\ cfg.count # 0 \/ i < MaxRot
    /\ i' = i + 1
    /\ IF cfg.count # 0 /\ i + 1 > cfg.count
       THEN /\ Goto("finally")
            /\ obs' = [obs EXCEPT !.viaBreak = TRUE]
            /\ UNCHANGED mac
       ELSE \E pick \in Picks(VENDOR_OUIS(vendor)), rnd \in SessionRands :
              LET r == random_mac(vendor, custom_prefix, pick, rnd)
              IN IF r.ok
                 THEN /\ mac' = r.mac
                      /\ Goto("sm_down")
                      /\ obs' = [obs EXCEPT !.generated = @ + 1,
                                            !.genAfterSig = @ \/ obs.sigDone]
                 ELSE /\ Goto("finally")
                      /\ obs' = [obs EXCEPT !.crash = r.err]
                      /\ UNCHANGED mac
    /\ UNCHANGED <<cfg, vendor, custom_prefix, tool, changer, restore_on_exit,
                   look, score, sys, store, ssidNow, fin, fout, calls>>

\* changer.set_mac(mac): down, set address, up, time.sleep(DHCP_DELAY)
SmDown == Main("sm_down") /\ SetMacStep("sm_addr", "down", mac, FALSE)
SmAddr == Main("sm_addr") /\ SetMacStep("sm_up", "addr", mac, FALSE)
SmUp == Main("sm_up") /\ SetMacStep("sm_sleep", "up", mac, FALSE)

SmSleep ==
    /\ Main("sm_sleep")
    /\ Goto("get_ip")
    /\ UNCHANGED <<cfg, vendor, custom_prefix, tool, changer, restore_on_exit, i, mac,
                   look, score, sys, store, ssidNow, obs, fin, fout, calls>>

\* ip = changer.get_ip_address(); the address is only logged
GetIp ==
    /\ Main("get_ip")
    /\ Goto("fingerprint")
    /\ UNCHANGED <<cfg, vendor, custom_prefix, tool, changer, restore_on_exit, i, mac,
                   look, score, sys, store, ssidNow, obs, fin, fout, calls>>

\* HOSTNAME_PROFILES.get(vendor, ["linux-host"])
FingerprintHosts(v) ==
    IF HOSTNAME_PROFILES(v) = <<>> THEN {"linux-host"} ELSE Range(HOSTNAME_PROFILES(v))

\* apply_fingerprint(vendor, dry)
apply_fingerprint(v, dry, hostname, s) ==
    IF ~Truthy(v) \/ dry THEN s
    ELSE [s EXCEPT !.host = hostname, !.ttl = TTL_PROFILES(v)]

Fingerprint ==
    /\ Main("fingerprint")
    /\ \E hostname \in FingerprintHosts(vendor) :
         sys' = apply_fingerprint(vendor, cfg.dry, hostname, sys)
    /\ Goto("score_ttl")
    /\ UNCHANGED <<cfg, vendor, custom_prefix, tool, changer, restore_on_exit, i, mac,
                   look, score, store, ssidNow, obs, fin, fout, calls>>

\* believability_score: the sysctl, hostname and iwgetid lookups, each inside a
\* try with a bare except
ScoreTtlLookup ==
    /\ Main("score_ttl")
    /\ look' = [look EXCEPT !.ttl = sys.ttl]
    /\ Goto("score_host")
    /\ UNCHANGED <<cfg, vendor, custom_prefix, tool, changer, restore_on_exit, i, mac,
                   score, sys, store, ssidNow, obs, fin, fout, calls>>

ScoreHostLookup ==
    /\ Main("score_host")
    /\ look' = [look EXCEPT !.host = sys.host]
    /\ Goto("score_ssid")
    /\ UNCHANGED <<cfg, vendor, custom_prefix, tool, changer, restore_on_exit, i, mac,
                   score, sys, store, ssidNow, obs, fin, fout, calls>>

ScoreSsidLookup ==
    /\ Main("score_ssid")
    /\ look' = [look EXCEPT !.ssid = ssidNow]
    /\ Goto("score_load")
    /\ UNCHANGED <<cfg, vendor, custom_prefix, tool, changer, restore_on_exit, i, mac,
                   score, sys, store, ssidNow, obs, fin, fout, calls>>

\* believability_score from load_profiles() to its return, and the log line
ScoreFinish ==
    /\ Main("score_load")
    /\ LET r == believability_score(cfg.iface, vendor, mac,
                                    look.ttl, look.host, look.ssid, store)
       IN IF r.ok
          THEN /\ score' = r.value
               /\ Goto("wait")
               /\ UNCHANGED obs
          ELSE /\ Goto("finally")
               /\ obs' = [obs EXCEPT !.crash = r.err,
                                     !.fatal = "malformed profile file"]
               /\ UNCHANGED score
    /\ look' = NoLook
    /\ UNCHANGED <<cfg, vendor, custom_prefix, tool, changer, restore_on_exit, i, mac,
                   sys, store, ssidNow, fin, fout, calls>>

\* the countdown or time.sleep(interval), run to its end
Wait ==
    /\ Main("wait")
    /\ Goto("loop_top")
    /\ obs' = [obs EXCEPT !.slept = @ + 1]
    /\ UNCHANGED <<cfg, vendor, custom_prefix, tool, changer, restore_on_exit, i, mac,
                   look, score, sys, store, ssidNow, fin, fout, calls>>

\* `if restore_on_exit and changer` and restore's `if not self.restored and self.original`
RestoreCalled == restore_on_exit /\ changer.set
RestoreActs == RestoreCalled /\ ~changer.restored /\ changer.original # NoMac

\* finally: safe_exit(), up to restore's set_mac or, without one, sys.exit(0)
Finally ==
    /\ Main("finally")
    /\ IF RestoreActs
       THEN /\ Goto("fin_down")
            /\ obs' = [obs EXCEPT !.restoreCalled = TRUE]
       ELSE /\ Exit(0)
            /\ obs' = [obs EXCEPT !.restoreCalled = @ \/ RestoreCalled,
                                  !.restoreReturned = @ \/ RestoreCalled]
    /\ UNCHANGED <<cfg, vendor, custom_prefix, tool, changer, restore_on_exit, i, mac,
                   look, score, sys, store, ssidNow, fin, fout, calls>>

FinDown == Main("fin_down") /\ SetMacStep("fin_addr", "down", changer.original, TRUE)
FinAddr == Main("fin_addr") /\ SetMacStep("fin_up", "addr", changer.original, TRUE)
FinUp == Main("fin_up") /\ SetMacStep("fin_sleep", "up", changer.original, TRUE)

\* set_mac's sleep ends; self.restored = True; sys.exit(0)
FinSleep ==
    /\ Main("fin_sleep")
    /\ changer' = [changer EXCEPT !.restored = TRUE]
    /\ Exit(0)
    /\ obs' = [obs EXCEPT !.restoreReturned = TRUE]
    /\ UNCHANGED <<cfg, vendor, custom_prefix, tool, restore_on_exit, i, mac,
                   look, score, sys, store, ssidNow, fin, fout, calls>>

(***************************************************************************)
(* SIGINT / SIGTERM.  The handler safe_exit runs on top of whatever frame  *)
(* is running; its sys.exit(0) raises SystemExit at the position of the    *)
(* frame it interrupted.                                                   *)
(***************************************************************************)
\* positions of main() inside a try whose bare `except:` handles the exception,
\* and where main() goes on from there
BareExceptNext(pc) ==
    CASE pc = "pv_ssid" -> "pv_rest"
      [] pc = "get_ip" -> "fingerprint"
      [] pc = "score_ttl" -> "score_host"
      [] pc = "score_host" -> "score_ssid"
      [] pc = "score_ssid" -> "score_load"
      [] OTHER -> NoneVal

\* positions of main() inside the loop's try ... finally
InTry(pc) ==
    pc \in {"loop_top", "sm_down", "sm_addr", "sm_up", "sm_sleep", "get_ip",
            "fingerprint", "score_ttl", "score_host", "score_ssid", "score_load", "wait"}

\* what a failed lookup leaves behind: current_ssid and get_ip_address return
\* their placeholder, the scorer's except clauses pass
LookAfterExcept(pc) ==
    CASE pc = "score_ttl" -> [look EXCEPT !.ttl = TtlUnreadable]
      [] pc = "score_host" -> [look EXCEPT !.host = HostUnreadable]
      [] pc \in {"pv_ssid", "score_ssid"} -> [look EXCEPT !.ssid = NoneVal]
      [] OTHER -> look

\* SystemExit(0) raised while main() stands at pc: every handler frame below the
\* raising one is left, then main()'s own try statements decide
SystemExitAt(pc) ==
    IF BareExceptNext(pc) # NoneVal
    THEN [stack |-> <<BareExceptNext(pc)>>, exit |-> <<>>, look |-> LookAfterExcept(pc)]
    ELSE IF InTry(pc)
    THEN [stack |-> <<"finally">>, exit |-> <<>>, look |-> look]
    ELSE [stack |-> <<"exited">>, exit |-> <<0>>, look |-> look]

\* a signal is delivered: safe_exit starts
Signal ==
    /\ Running
    /\ obs.sigs < MaxSignals
    /\ stack' = Append(stack, "h_enter")
    /\ obs' = [obs EXCEPT !.sigs = @ + 1]
    /\ UNCHANGED <<cfg, vendor, custom_prefix, tool, changer, restore_on_exit, i, mac,
                   look, score, sys, store, ssidNow, exitStatus, fin, fout, calls>>

\* the handler's sys.exit(0)
HandlerExit ==
    LET u == SystemExitAt(stack[1])
    IN /\ stack' = u.stack
       /\ exitStatus' = u.exit
       /\ look' = u.look

\* safe_exit up to restore's set_mac or, without one, its sys.exit(0)
HEnter ==
    /\ Handler("h_enter")
    /\ IF RestoreActs
       THEN /\ stack' = [stack EXCEPT ![Len(stack)] = "h_down"]
            /\ obs' = [obs EXCEPT !.restoreCalled = TRUE]
            /\ UNCHANGED <<exitStatus, look>>
       ELSE /\ HandlerExit
            /\ obs' = [obs EXCEPT !.sigDone = @ \/ InTry(stack[1]),
                                  !.restoreCalled = @ \/ RestoreCalled,
                                  !.restoreReturned = @ \/ RestoreCalled]
    /\ UNCHANGED <<cfg, vendor, custom_prefix, tool, changer, restore_on_exit, i, mac,
                   score, sys, store, ssidNow, fin, fout, calls>>

HDown == Handler("h_down") /\ SetMacStep("h_addr", "down", changer.original, TRUE)
HAddr == Handler("h_addr") /\ SetMacStep("h_up", "addr", changer.original, TRUE)
HUp == Handler("h_up") /\ SetMacStep("h_sleep", "up", changer.original, TRUE)

\* set_mac's sleep ends; self.restored = True; sys.exit(0)
HSleep ==
    /\ Handler("h_sleep")
    /\ changer' = [changer EXCEPT !.restored = TRUE]
    /\ HandlerExit
    /\ obs' = [obs EXCEPT !.sigDone = @ \/ InTry(stack[1]), !.restoreReturned = TRUE]
    /\ UNCHANGED <<cfg, vendor, custom_prefix, tool, restore_on_exit, i, mac,
                   score, sys, store, ssidNow, fin, fout, calls>>

AfterPrompts ==
    \/ RequireRoot \/ PromptIface \/ VendorMenu
    \/ PvSsid \/ PvRest \/ DetectTool \/ Construct
    \/ LoopTop \/ SmDown \/ SmAddr \/ SmUp \/ SmSleep \/ GetIp \/ Fingerprint
    \/ ScoreTtlLookup \/ ScoreHostLookup \/ ScoreSsidLookup \/ ScoreFinish \/ Wait
    \/ Finally \/ FinDown \/ FinAddr \/ FinUp \/ FinSleep
    \/ Signal \/ HEnter \/ HDown \/ HAddr \/ HUp \/ HSleep

Next == PromptConfig \/ AfterPrompts

Spec == Init /\ [][Next]_vars

\* The sessions whose operator asks for a dry run.
NextDry == PromptDryRun \/ AfterPrompts

SpecDry == Init /\ [][NextDry]_vars

(***************************************************************************)
(* The pure functions on their own: random_mac, believability_score, and   *)
(* a process calling persistent_vendor repeatedly.                         *)
(***************************************************************************)
PureSession ==
    /\ sys = [ifMac |-> FactoryMac, ifUp |-> TRUE, host |-> "kali", ttl |-> 64]
    /\ SessionStart
    /\ ssidNow = NoneVal

MacVendors == {NoneVal, "", "apple", "vmware", "cisco"}

InitMac ==
    /\ PureSession
    /\ store = MissingFile
    /\ fin \in [vendor : MacVendors, prefix : Prefixes]
    /\ fout = <<>>
    /\ calls = <<>>

GenerateMac ==
    /\ fout = <<>>
    /\ \E pick \in Picks(VENDOR_OUIS(fin.vendor)), rnd \in RandSeqs :
         fout' = <<random_mac(fin.vendor, fin.prefix, pick, rnd)>>
    /\ UNCHANGED <<sessionVars, store, fin, calls>>

NextMac == GenerateMac

SpecMac == InitMac /\ [][NextMac]_vars

\* MACs handed to the scorer: generated ones and the degenerate patterns.
ScoreMacs ==
    { MacFromPrefix(<<>>, <<171, 18, 52, 86, 120, 154>>),
      MacFromPrefix(Oui("f","0","1","8","9","8"), <<1, 2, 3, 4, 5, 6>>),
      MacFromPrefix(Oui("f","0","1","8","0","0"), <<1, 2, 3, 4, 5, 6>>),
      MacFromPrefix(<<"z","z",":","1","1">>, <<0, 0, 0, 0, 0, 0>>),
      MacFromPrefix(<<"0","1",":","0","2",":","0","3">>, <<4, 5, 6, 0, 0, 0>>),
      BroadcastMac,
      NullMac }

ScoreVendors == {NoneVal, "apple", "vmware", "realtek", "cisco"}
ScoreTtls == {TtlUnreadable, 1, 64, 65, 128}
ScoreHosts == {HostUnreadable, "kali", "MacBook-Pro", "apple-tv", "Ubuntu-PC", "vmware-host"}
ScoreStores ==
    { MissingFile, MalformedFile,
      FileWith([EmptyMap EXCEPT !["HomeNet"] = "apple"]),
      FileWith([EmptyMap EXCEPT !["HomeNet"] = "cisco"]) }

InitScore ==
    /\ PureSession
    /\ store \in ScoreStores
    /\ fin \in [iface : {Wlan0, Enp3s0, Vmnet1, Tun0}, vendor : ScoreVendors, mac : ScoreMacs,
                 ttl : ScoreTtls, host : ScoreHosts, ssid : {NoneVal, "HomeNet"}]
    /\ fout = <<>>
    /\ calls = <<>>

Score ==
    /\ fout = <<>>
    /\ fout' = <<believability_score(fin.iface, fin.vendor, fin.mac,
                                     fin.ttl, fin.host, fin.ssid, store)>>
    /\ UNCHANGED <<sessionVars, store, fin, calls>>

NextScore == Score

SpecScore == InitScore /\ [][NextScore]_vars

InitVendor ==
    /\ PureSession
    /\ store \in Stores
    /\ fin = <<>>
    /\ fout = <<>>
    /\ calls = <<>>

\* One more call of persistent_vendor(iface) by the same process; an exception
\* raised by a call ends the process.
CallPersistentVendor ==
    /\ Len(calls) < MaxCalls
    /\ IF calls = <<>> THEN TRUE ELSE calls[Len(calls)].ok
    /\ \E iface \in {Wlan0, Enp3s0, Tun0}, ssid \in SSIDs \cup {NoneVal, ""},
          pick \in 1..2 :
         LET r == persistent_vendor(iface, ssid, store, pick)
         IN /\ calls' = Append(calls, [iface |-> iface, ssid |-> ssid, before |-> store,
                                       after |-> r.store, ok |-> r.ok, vendor |-> r.vendor,
                                       chose |-> r.chose, wrote |-> r.wrote])
            /\ store' = r.store
    /\ UNCHANGED <<sessionVars, fin, fout>>

NextVendor == CallPersistentVendor

SpecVendor == InitVendor /\ [][NextVendor]_vars

(***************************************************************************)
(* The claims.                                                             *)
(***************************************************************************)
SessionRestores == changer.set /\ restore_on_exit /\ changer.original # NoMac

\* C1: a session that is not a dry run, captured an original MAC and restores on
\* exit has, whenever the process has exited, the original MAC as the last
\* address written to the interface.
C1_ExitLeavesOriginalMac ==
    (Exited /\ SessionRestores /\ ~cfg.dry) => obs.lastWritten = changer.original

\* C2: the write-back of the original MAC is never performed more than once, and
\* a session that restores on exit has performed it exactly once, with the
\* restored flag set, when the process has exited.
C2_SingleWriteBack ==
    /\ obs.writeBacks <= 1
    /\ (Exited /\ SessionRestores) => (obs.writeBacks = 1 /\ changer.restored)

\* C3: once the handler of a signal delivered during the rotation cycle has run,
\* no new MAC is generated or applied, and the process exits with status 0.
C3_SignalTerminates ==
    /\ ~obs.genAfterSig
    /\ (Exited /\ obs.sigDone) => exitStatus = <<0>>

\* C4: once a fatal condition has been met, no set_mac command has reached the
\* interface, and the process exits with a non-zero status.
C4_FatalBeforeMutation ==
    obs.fatal # NoneVal => (obs.cmds = 0 /\ (Exited => exitStatus # <<0>>))

\* C5: with a count N > 0 and no signal, no more than N MACs are generated and
\* applied, the driver does not sleep the interval after the N-th rotation, and
\* when the loop ends exactly N have been applied and the write-back runs once
\* if restore-on-exit is enabled and not at all otherwise.
C5_CountThenTerminate ==
    (cfg.count > 0 /\ obs.sigs = 0) =>
        /\ obs.generated <= cfg.count
        /\ obs.applied <= cfg.count
        /\ stack = <<"wait">> => i < cfg.count
        /\ obs.viaBreak => obs.applied = cfg.count
        /\ (Exited /\ obs.viaBreak) =>
               obs.writeBacks = (IF SessionRestores THEN 1 ELSE 0)

\* C6: a call of persistent_vendor leaves every entry the file already holds as
\* it is; a call that draws a vendor for a non-empty SSID stores it before it
\* returns; and the call that follows a returned call for the same non-empty
\* SSID returns the same vendor, draws nothing and writes nothing.
C6_ResolveVendorConsistent ==
    /\ \A k \in 1..Len(calls) :
         LET c == calls[k]
         IN /\ c.before.state = "ok" =>
                 /\ c.after.state = "ok"
                 /\ \A x \in SSIDs :
                      c.before.map[x] # Absent => c.after.map[x] = c.before.map[x]
            /\ (c.ok /\ c.chose /\ Truthy(c.ssid)) =>
                 /\ c.wrote
                 /\ c.after.state = "ok"
                 /\ c.after.map[c.ssid] = c.vendor
    /\ \A k \in 1..(Len(calls) - 1) :
         LET a == calls[k]
             b == calls[k + 1]
         IN (a.ok /\ Truthy(a.ssid) /\ b.ssid = a.ssid) =>
              (b.ok /\ b.vendor = a.vendor /\ ~b.chose /\ ~b.wrote)

\* a first call on an unseen SSID drew and stored a vendor, and a second call
\* for the same SSID has returned
C6_Witness ==
    \E k \in 1..(Len(calls) - 1) :
        /\ calls[k].ok /\ calls[k].chose /\ calls[k].wrote
        /\ calls[k].before.state = "ok"
        /\ calls[k + 1].ssid = calls[k].ssid
        /\ calls[k + 1].ok

\* C7: random_mac given a custom prefix that does not parse into 1 to 3 two-digit
\* hex octets raises instead of returning a MAC.
C7_InvalidPrefixRejected ==
    (fout # <<>> /\ ~Truthy(fin.vendor) /\ fin.prefix # <<>> /\ ~ValidPrefix(fin.prefix))
        => ~fout[1].ok

\* C8: believability_score returns an integer in 0..100, whatever the lookups
\* give and also when they fail; it does not raise.
C8_ScoreTotal ==
    fout # <<>> => (fout[1].ok /\ fout[1].value \in 0..100)

\* C9: no session ends on the IndexError of an empty vendor list or the
\* KeyError of a vendor missing from the catalog.
C9_GracefulFallback ==
    obs.crash \notin {"IndexError", "KeyError"}

\* C10 as stated: in a dry-run session the interface, the hostname and the TTL
\* stay as the process found them, the captured original MAC stays what the
\* interface held, and once a restore call made after a set_mac has returned
\* the restored flag is set.
C10_DryRunRestoreFlips ==
    cfg.dry =>
        /\ sys = obs.sys0
        /\ changer.set => changer.original = obs.sys0.ifMac
        /\ (obs.applied > 0 /\ obs.restoreReturned) => changer.restored

\* C10 amended: the same, the restored flag being set once a restore call has
\* returned in a session that captured an original MAC.
C10_DryRunNoMutation ==
    cfg.dry =>
        /\ sys = obs.sys0
        /\ changer.set => changer.original = obs.sys0.ifMac
        /\ (obs.restoreReturned /\ changer.original # NoMac) => changer.restored

\* a dry-run session has run set_mac for a generated MAC and a restore call has
\* returned with the flag set
C10_Witness ==
    /\ cfg.dry
    /\ obs.applied > 0
    /\ changer.original # NoMac
    /\ obs.restoreReturned
    /\ changer.restored

====
